---- MODULE Spec2Model ----
(***************************************************************************)
(* Multi-round auction engine: users' ledger, bids, rounds, winner         *)
(* selection, anti-snipe extension, round timers and the sweeper.          *)
(*                                                                         *)
(* Store model.  Handlers that open a mongoose session run as snapshot     *)
(* transactions: the body reads the snapshot taken at its first read and   *)
(* its writes are applied at commit, unless a document it wrote was        *)
(* written by somebody else after the snapshot (write conflict, abort).    *)
(* Handlers without a session read a document, change it in memory and     *)
(* save() it: the save sets the modified fields only, with no conflict     *)
(* check.  One handler at a time may be "in flight" (variable pend) while  *)
(* every other handler runs to completion in between its steps; this       *)
(* yields every interleaving of two handlers.                              *)
(*                                                                         *)
(* Money is counted in hundredths, time in ticks of 30 seconds.            *)
(***************************************************************************)
EXTENDS Integers, Sequences, FiniteSets, TLC

VARIABLES users, auction, rounds, bids, wonItems, transactions,
          jobs, now, pend

vars == <<users, auction, rounds, bids, wonItems, transactions,
          jobs, now, pend>>

-----------------------------------------------------------------------------
(* Bounds of the model                                                     *)

NumUsers == 2
MaxBids == 3
MaxTime == 5
TerminationTime == 8
BiddingTime == 3
MaxLedgerOps == 1
MaxRaisedBids == 2
MaxItems == 5
InitialBalance == 200
BidAmounts == {100, 200}
NewAmounts == {105}
IncreaseAmounts == {104, 105, 110}
CashAmounts == {100}
ItemConfigs == {<<2, 1>>}
LargeItemConfigs == {<<3, 2>>}
AllItemConfigs == (1 .. MaxItems) \X (1 .. MaxItems)
MaxExtensionsChoices == {1}

Users == 1 .. NumUsers
BidIds == 1 .. MaxBids
None == 0 - 1

-----------------------------------------------------------------------------
(* Pure helpers (utils/helpers)                                            *)

Min(a, b) == IF a < b THEN a ELSE b

CeilDiv(a, b) == (a + b - 1) \div b

calculateTotalRounds(totalItems, itemsPerRound) ==
    CeilDiv(totalItems, itemsPerRound)

\* every round given itemsPerRound items
calculateItemsInRoundFull(roundNumber, totalItems, itemsPerRound, totalRounds) ==
    itemsPerRound

calculateItemsInRound(roundNumber, totalItems, itemsPerRound, totalRounds) ==
    IF roundNumber = totalRounds
    THEN totalItems - (totalRounds - 1) * itemsPerRound
    ELSE itemsPerRound

\* the first item number taken one round too far
calculateStartItemNumberNextRound(roundNumber, itemsPerRound) ==
    roundNumber * itemsPerRound + 1

calculateStartItemNumber(roundNumber, itemsPerRound) ==
    (roundNumber - 1) * itemsPerRound + 1

isInAntiSnipeWindow(currentTime, roundEndTime, antiSnipeWindow) ==
    LET timeUntilEnd == roundEndTime - currentTime
    IN  timeUntilEnd <= antiSnipeWindow /\ timeUntilEnd > 0

\* the next bid with no step asked for
calculateMinNextBidNoStep(currentBid, stepPercentage) == currentBid

\* currentBid * (1 + step/100) rounded to two decimals; amounts are in
\* hundredths, so the rounding is to the nearest integer
calculateMinNextBid(currentBid, stepPercentage) ==
    (currentBid * (100 + stepPercentage) + 50) \div 100

-----------------------------------------------------------------------------
(* Model methods                                                           *)

\* the balance compared without the reservation
hasBalance(user, amount) == user.balance >= amount

hasAvailableBalance(user, amount) ==
    user.balance - user.reservedBalance >= amount

getAvailableBalance(user) ==
    IF user.balance - user.reservedBalance > 0
    THEN user.balance - user.reservedBalance
    ELSE 0

\* userSchema: min 0 validators and the pre('save') hook
userSaveOk(user) ==
    /\ user.balance >= 0
    /\ user.reservedBalance >= 0
    /\ ~(user.reservedBalance > user.balance)

\* roundSchema.pre('save')
roundSaveOk(round) ==
    /\ round.scheduledEndTime > round.scheduledStartTime
    /\ (round.actualStartTime # None /\ round.actualEndTime # None)
          => round.actualEndTime > round.actualStartTime

\* canExtend without the limit
canExtendWhileActive(round, maxExtensions) == round.status = "active"

canExtend(round, maxExtensions) ==
    /\ round.status = "active"
    /\ ~(maxExtensions # None /\ round.extensionsCount >= maxExtensions)

\* an extension counted from the time of the bid
extendFromNow(round, extensionSeconds, t) ==
    [round EXCEPT !.actualEndTime = t + extensionSeconds,
                  !.extensionsCount = round.extensionsCount + 1,
                  !.lastExtensionAt = t]

extend(round, extensionSeconds, t) ==
    [round EXCEPT !.actualEndTime = round.actualEndTime + extensionSeconds,
                  !.extensionsCount = round.extensionsCount + 1,
                  !.lastExtensionAt = t]

canAcceptBids(a) == a.status = "active"

HistoryEntry(action, amount, round, previousAmount) ==
    [action |-> action, amount |-> amount, round |-> round,
     previousAmount |-> previousAmount]

-----------------------------------------------------------------------------
(* The store                                                               *)

DB == [users |-> users, auction |-> auction, rounds |-> rounds,
       bids |-> bids, wonItems |-> wonItems, transactions |-> transactions]

Result(err, db) == [err |-> err, db |-> db]

RoundIds(db) == DOMAIN db.rounds

TransactionDoc(userId, type, amount, bidId, balanceBefore, balanceAfter) ==
    [userId |-> userId, type |-> type, amount |-> amount, bidId |-> bidId,
     balanceBefore |-> balanceBefore, balanceAfter |-> balanceAfter]

\* limits of the auction parameters; a tick is 30 seconds, so the
\* shortest round is 2 ticks long, the shortest anti-snipe window and
\* extension 1 tick
MIN_ROUND_DURATION == 2
MIN_ANTI_SNIPE_WINDOW == 1
MIN_ANTI_SNIPE_EXTENSION == 1
MAX_EXTENSIONS_LIMIT == 100
MIN_BID_STEP_PERCENT == 1
MAX_BID_STEP_PERCENT == 100

\* validateAuctionParams; maxExtensions is checked only when it is given
validateAuctionParams(in) ==
    /\ in.totalItems >= 1
    /\ in.itemsPerRound >= 1
    /\ in.roundDuration >= MIN_ROUND_DURATION
    /\ in.antiSnipeWindow >= MIN_ANTI_SNIPE_WINDOW
    /\ in.antiSnipeExtension >= MIN_ANTI_SNIPE_EXTENSION
    /\ (in.maxExtensions # None =>
          in.maxExtensions >= 0 /\ in.maxExtensions <= MAX_EXTENSIONS_LIMIT)
    /\ in.minBid >= 1
    /\ in.minBidStep >= MIN_BID_STEP_PERCENT
    /\ in.minBidStep <= MAX_BID_STEP_PERCENT
    /\ ~(in.antiSnipeWindow >= in.roundDuration)

createRoundsForAuction(a) ==
    [i \in 1 .. a.totalRounds |->
        [roundNumber |-> i,
         itemsInRound |-> calculateItemsInRound(i, a.totalItems,
                                 a.itemsPerRound, a.totalRounds),
         scheduledStartTime |-> a.startTime + (i - 1) * a.roundDuration,
         scheduledEndTime |-> a.startTime + i * a.roundDuration,
         actualStartTime |-> None,
         actualEndTime |-> None,
         extensionsCount |-> 0,
         lastExtensionAt |-> None,
         status |-> "scheduled",
         winnersProcessed |-> FALSE]]

createAuction(in) ==
    [totalItems |-> in.totalItems,
     itemsPerRound |-> in.itemsPerRound,
     startTime |-> in.startTime,
     roundDuration |-> in.roundDuration,
     antiSnipeWindow |-> in.antiSnipeWindow,
     antiSnipeExtension |-> in.antiSnipeExtension,
     maxExtensions |-> in.maxExtensions,
     minBid |-> in.minBid,
     minBidStep |-> in.minBidStep,
     status |-> "scheduled",
     currentRound |-> 0,
     totalRounds |-> calculateTotalRounds(in.totalItems, in.itemsPerRound)]

\* maxExtensions is optional in the input
OptionalMaxExtensions == MaxExtensionsChoices \cup {None}

AuctionInputs(configs, maxChoices) ==
    {[totalItems |-> c[1], itemsPerRound |-> c[2], startTime |-> 1,
      roundDuration |-> 2, antiSnipeWindow |-> 1, antiSnipeExtension |-> 1,
      maxExtensions |-> m, minBid |-> 100, minBidStep |-> 5] :
        c \in configs, m \in maxChoices}

Idle == [op |-> "none"]

\* users with a balance and one auction created from a valid input
InitWith(configs, maxChoices) ==
    /\ users = [u \in Users |->
                  [balance |-> InitialBalance, reservedBalance |-> 0,
                   totalBids |-> 0, totalWins |-> 0, totalSpent |-> 0]]
    /\ \E in \in AuctionInputs(configs, maxChoices) :
          /\ validateAuctionParams(in)
          /\ in.startTime > 0
          /\ auction = createAuction(in)
          /\ rounds = createRoundsForAuction(createAuction(in))
    /\ bids = <<>>
    /\ wonItems = {}
    /\ transactions = <<>>
    /\ jobs = {}
    /\ now = 0
    /\ pend = Idle

Init == InitWith(ItemConfigs, MaxExtensionsChoices)

InitLarge == InitWith(LargeItemConfigs, MaxExtensionsChoices)

InitAll == InitWith(AllItemConfigs, MaxExtensionsChoices)

InitOptional == InitWith(ItemConfigs, OptionalMaxExtensions)

-----------------------------------------------------------------------------
(* Queries                                                                 *)

ActiveRounds(db) == {r \in RoundIds(db) : db.rounds[r].status = "active"}

\* Round.findOne({auctionId, status: 'active'}): any active round, None if
\* there is none
FindActiveRound(db) ==
    IF ActiveRounds(db) = {} THEN {None} ELSE ActiveRounds(db)

BidsWhere(db, currentRound, status) ==
    {b \in DOMAIN db.bids : /\ db.bids[b].currentRound = currentRound
                            /\ db.bids[b].status = status}

UserBidsWhere(db, userId, status) ==
    {b \in DOMAIN db.bids : /\ db.bids[b].userId = userId
                            /\ db.bids[b].status = status}

\* the sort with the amount ascending
RanksBeforeAscending(x, y) ==
    \/ x.amount < y.amount
    \/ x.amount = y.amount /\ x.createdAt < y.createdAt

\* sort({amount: -1, createdAt: 1}): a before b
RanksBefore(x, y) ==
    \/ x.amount > y.amount
    \/ x.amount = y.amount /\ x.createdAt < y.createdAt

RanksSame(x, y) == x.amount = y.amount /\ x.createdAt = y.createdAt

\* All sequences listing the bids of S in sort order; bids that agree on
\* amount and createdAt come in either order
RECURSIVE SortedBids(_, _)
SortedBids(db, S) ==
    IF S = {} THEN {<<>>}
    ELSE LET firsts == {b \in S : \A c \in S :
                           \/ RanksBefore(db.bids[b], db.bids[c])
                           \/ RanksSame(db.bids[b], db.bids[c])}
         IN  UNION {{<<b>> \o rest : rest \in SortedBids(db, S \ {b})} :
                        b \in firsts}

-----------------------------------------------------------------------------
(* BidService: transaction bodies                                          *)

\* a bid saved without the entry of the pre-save hook
NewBidNoHook(userId, amount, roundNumber, t) ==
    [userId |-> userId, amount |-> amount, originalAmount |-> amount,
     createdInRound |-> roundNumber, currentRound |-> roundNumber,
     status |-> "active", wonItemNumber |-> None, wonInRound |-> None,
     wonPosition |-> None, createdAt |-> t, history |-> <<>>]

NewBid(userId, amount, roundNumber, t) ==
    [userId |-> userId, amount |-> amount, originalAmount |-> amount,
     createdInRound |-> roundNumber, currentRound |-> roundNumber,
     status |-> "active", wonItemNumber |-> None, wonInRound |-> None,
     wonPosition |-> None, createdAt |-> t,
     history |-> <<HistoryEntry("created", amount, roundNumber, None)>>]

\* r is the round returned by the findOne for an active round, id the _id
\* of the bid to create
placeBid(db, userId, amount, r, id, t) ==
    LET user == db.users[userId]
        user2 == [user EXCEPT !.reservedBalance = @ + amount,
                              !.totalBids = @ + 1]
    IN  IF amount < 1 THEN Result("Validation", db)
        ELSE IF ~canAcceptBids(db.auction)
        THEN Result("AuctionNotActive", db)
        ELSE IF r = None THEN Result("RoundNotActive", db)
        ELSE IF amount < db.auction.minBid THEN Result("BidTooLow", db)
        ELSE IF UserBidsWhere(db, userId, "active") # {}
        THEN Result("Conflict", db)
        ELSE IF ~hasAvailableBalance(user, amount)
        THEN Result("InsufficientBalance", db)
        ELSE IF ~userSaveOk(user2) THEN Result("SaveError", db)
        ELSE Result("ok",
               [db EXCEPT
                  !.users[userId] = user2,
                  !.bids = @ @@ (id :> NewBid(userId, amount,
                                       db.rounds[r].roundNumber, t)),
                  !.transactions = Append(@,
                      TransactionDoc(userId, "bid_placed", amount, id,
                                     user.balance, user2.balance))])

increaseBid(db, bidId, userId, newAmount) ==
    IF newAmount < 1 THEN Result("Validation", db)
    ELSE IF bidId \notin DOMAIN db.bids THEN Result("NotFound", db)
    ELSE
    LET bid == db.bids[bidId]
        minNextBid == calculateMinNextBid(bid.amount, db.auction.minBidStep)
        difference == newAmount - bid.amount
        user == db.users[userId]
        user2 == [user EXCEPT !.reservedBalance = @ + difference]
        bid2 == [bid EXCEPT
                   !.amount = newAmount,
                   !.history = Append(@, HistoryEntry("increased", newAmount,
                                          bid.currentRound, bid.amount))]
    IN  IF bid.userId # userId THEN Result("Conflict", db)
        ELSE IF bid.status # "active" THEN Result("Conflict", db)
        ELSE IF newAmount < minNextBid THEN Result("BidTooLow", db)
        ELSE IF ~hasAvailableBalance(user, difference)
        THEN Result("InsufficientBalance", db)
        ELSE IF ~userSaveOk(user2) THEN Result("SaveError", db)
        ELSE Result("ok",
               [db EXCEPT
                  !.users[userId] = user2,
                  !.bids[bidId] = bid2,
                  !.transactions = Append(@,
                      TransactionDoc(userId, "bid_increased", difference,
                                     bidId, user.balance, user2.balance))])

cancelBid(db, bidId, userId) ==
    IF bidId \notin DOMAIN db.bids THEN Result("NotFound", db)
    ELSE
    LET bid == db.bids[bidId]
        user == db.users[userId]
        user2 == [user EXCEPT !.balance = @ + bid.amount,
                              !.reservedBalance = @ - bid.amount]
        bid2 == [bid EXCEPT
                   !.status = "refunded",
                   !.history = Append(@, HistoryEntry("refunded", bid.amount,
                                          bid.currentRound, None))]
    IN  IF bid.userId # userId THEN Result("Conflict", db)
        ELSE IF bid.status # "active" THEN Result("Conflict", db)
        ELSE IF /\ bid.currentRound \in RoundIds(db)
                /\ db.rounds[bid.currentRound].status = "active"
        THEN Result("Conflict", db)
        ELSE IF ~userSaveOk(user2) THEN Result("SaveError", db)
        ELSE Result("ok",
               [db EXCEPT
                  !.users[userId] = user2,
                  !.bids[bidId] = bid2,
                  !.transactions = Append(@,
                      TransactionDoc(userId, "bid_refunded", bid.amount,
                                     bidId, user.balance, user2.balance))])

-----------------------------------------------------------------------------
(* RoundService: transaction bodies                                        *)

\* carryOverBids: the bids found are those with currentRound equal to the
\* previous round's number and status carried_over
carryOverFilter(db, currentRoundNumber) ==
    BidsWhere(db, currentRoundNumber - 1, "carried_over")

carryOverBids(db, currentRoundNumber) ==
    LET found == carryOverFilter(db, currentRoundNumber)
    IN  [db EXCEPT !.bids =
           [b \in DOMAIN db.bids |->
              IF b \in found
              THEN [db.bids[b] EXCEPT
                      !.status = "active",
                      !.currentRound = currentRoundNumber,
                      !.history = Append(@,
                          HistoryEntry("carried_over", db.bids[b].amount,
                                       currentRoundNumber, None))]
              ELSE db.bids[b]]]

\* a start that is always refused
startRoundRefused(db, r, t) ==
    IF r \notin RoundIds(db) THEN Result("NotFound", db)
    ELSE Result("Conflict", db)

\* startRound without the check of the round's status
startRoundAgain(db, r, t) ==
    IF r \notin RoundIds(db) THEN Result("NotFound", db)
    ELSE
    LET round == db.rounds[r]
        round2 == [round EXCEPT
                     !.status = "active",
                     !.actualStartTime = t,
                     !.actualEndTime = t + (round.scheduledEndTime
                                            - round.scheduledStartTime)]
        db2 == [db EXCEPT !.rounds[r] = round2]
        db3 == IF round.roundNumber > 1
               THEN carryOverBids(db2, round.roundNumber)
               ELSE db2
    IN  IF ~roundSaveOk(round2) THEN Result("SaveError", db)
        ELSE Result("ok",
               [db3 EXCEPT !.auction.currentRound = round.roundNumber,
                           !.auction.status = "active"])

startRound(db, r, t) ==
    IF r \notin RoundIds(db) THEN Result("NotFound", db)
    ELSE
    LET round == db.rounds[r]
        round2 == [round EXCEPT
                     !.status = "active",
                     !.actualStartTime = t,
                     !.actualEndTime = t + (round.scheduledEndTime
                                            - round.scheduledStartTime)]
        db2 == [db EXCEPT !.rounds[r] = round2]
        db3 == IF round.roundNumber > 1
               THEN carryOverBids(db2, round.roundNumber)
               ELSE db2
    IN  IF round.status # "scheduled" THEN Result("Conflict", db)
        ELSE IF ~roundSaveOk(round2) THEN Result("SaveError", db)
        ELSE Result("ok",
               [db3 EXCEPT !.auction.currentRound = round.roundNumber,
                           !.auction.status = "active"])

\* a winner whose reservation is not released
commitWinKeepingReservation(user, amount) ==
    [user EXCEPT !.totalWins = @ + 1,
                 !.totalSpent = @ + amount]

\* one winner of processWinners: bid, user, bid_won transaction, WonItem
commitWin(user, amount) ==
    [user EXCEPT !.reservedBalance = @ - amount,
                 !.totalWins = @ + 1,
                 !.totalSpent = @ + amount]

WonItemDoc(bidId, userId, itemNumber, roundNumber, position, amount) ==
    [bidId |-> bidId, userId |-> userId, itemNumber |-> itemNumber,
     roundNumber |-> roundNumber, positionInRound |-> position,
     winningBidAmount |-> amount]

\* unique indexes of WonItem: bidId, and (auctionId, itemNumber)
wonItemInsertOk(db, doc) ==
    \A w \in db.wonItems : w.bidId # doc.bidId /\ w.itemNumber # doc.itemNumber

processWinner(db, bidId, itemNumber, roundNumber, position) ==
    LET bid == db.bids[bidId]
        user == db.users[bid.userId]
        user2 == commitWin(user, bid.amount)
        bid2 == [bid EXCEPT
                   !.status = "won",
                   !.wonItemNumber = itemNumber,
                   !.wonInRound = roundNumber,
                   !.wonPosition = position,
                   !.history = Append(@, HistoryEntry("won", bid.amount,
                                          roundNumber, None))]
        doc == WonItemDoc(bidId, bid.userId, itemNumber, roundNumber,
                          position, bid.amount)
    IN  IF ~userSaveOk(user2) THEN Result("SaveError", db)
        ELSE IF ~wonItemInsertOk(db, doc) THEN Result("DuplicateKey", db)
        ELSE Result("ok",
               [db EXCEPT
                  !.bids[bidId] = bid2,
                  !.users[bid.userId] = user2,
                  !.transactions = Append(@,
                      TransactionDoc(bid.userId, "bid_won", bid.amount, bidId,
                                     user2.balance + bid.amount,
                                     user2.balance)),
                  !.wonItems = @ \cup {doc}])

\* a refund whose transaction document is not written
refundBidUnlogged(db, bidId) ==
    LET bid == db.bids[bidId]
        user == db.users[bid.userId]
    IN  Result("ok",
          [db EXCEPT
             !.users[bid.userId] =
                 [user EXCEPT !.balance = @ + bid.amount,
                              !.reservedBalance = @ - bid.amount],
             !.bids[bidId] =
                 [bid EXCEPT
                    !.status = "refunded",
                    !.history = Append(@, HistoryEntry("refunded", bid.amount,
                                           bid.currentRound, None))]])

refundBid(db, bidId) ==
    LET bid == db.bids[bidId]
        user == db.users[bid.userId]
        user2 == [user EXCEPT !.balance = @ + bid.amount,
                              !.reservedBalance = @ - bid.amount]
        bid2 == [bid EXCEPT
                   !.status = "refunded",
                   !.history = Append(@, HistoryEntry("refunded", bid.amount,
                                          bid.currentRound, None))]
    IN  IF ~userSaveOk(user2) THEN Result("SaveError", db)
        ELSE Result("ok",
               [db EXCEPT
                  !.users[bid.userId] = user2,
                  !.bids[bidId] = bid2,
                  !.transactions = Append(@,
                      TransactionDoc(bid.userId, "bid_refunded", bid.amount,
                                     bidId, user2.balance - bid.amount,
                                     user2.balance))])

\* a loser carried over with the amount it was created with
carryOverLoserAtOriginal(db, bidId, roundNumber) ==
    Result("ok",
      [db EXCEPT !.bids[bidId] =
         [@ EXCEPT !.status = "carried_over",
                   !.amount = db.bids[bidId].originalAmount,
                   !.currentRound = roundNumber + 1]])

\* a loser carried over with its reservation released
carryOverLoserReleased(db, bidId, roundNumber) ==
    Result("ok",
      [db EXCEPT
         !.users[db.bids[bidId].userId].reservedBalance =
             @ - db.bids[bidId].amount,
         !.bids[bidId] =
             [@ EXCEPT !.status = "carried_over",
                       !.currentRound = roundNumber + 1,
                       !.history = Append(@,
                           HistoryEntry("carried_over", db.bids[bidId].amount,
                                        roundNumber + 1, None))]])

carryOverLoser(db, bidId, roundNumber) ==
    Result("ok",
      [db EXCEPT !.bids[bidId] =
         [@ EXCEPT !.status = "carried_over",
                   !.currentRound = roundNumber + 1,
                   !.history = Append(@,
                       HistoryEntry("carried_over", db.bids[bidId].amount,
                                    roundNumber + 1, None))]])

\* the loop over the winners, i = 1 .. Len(winners)
RECURSIVE winnersLoop(_, _, _, _, _)
winnersLoop(db, winners, i, roundNumber, startItemNumber) ==
    IF i > Len(winners) THEN Result("ok", db)
    ELSE LET step == processWinner(db, winners[i], startItemNumber + (i - 1),
                                   roundNumber, i)
         IN  IF step.err # "ok" THEN step
             ELSE winnersLoop(step.db, winners, i + 1, roundNumber,
                              startItemNumber)

RECURSIVE losersLoop(_, _, _, _, _)
losersLoop(db, losers, i, roundNumber, isLastRound) ==
    IF i > Len(losers) THEN Result("ok", db)
    ELSE LET step == IF isLastRound THEN refundBid(db, losers[i])
                     ELSE carryOverLoser(db, losers[i], roundNumber)
         IN  IF step.err # "ok" THEN step
             ELSE losersLoop(step.db, losers, i + 1, roundNumber, isLastRound)

winnersCountOf(itemsInRound, nBids) == Min(itemsInRound, nBids)

\* sorted is the result of the sorted find of the round's active bids
processWinners(db, r, sorted) ==
    LET round == db.rounds[r]
        winnersCount == winnersCountOf(round.itemsInRound, Len(sorted))
        winners == SubSeq(sorted, 1, winnersCount)
        losers == SubSeq(sorted, winnersCount + 1, Len(sorted))
        startItemNumber == calculateStartItemNumber(round.roundNumber,
                                                    db.auction.itemsPerRound)
        isLastRound == round.roundNumber >= db.auction.totalRounds
        won == winnersLoop(db, winners, 1, round.roundNumber, startItemNumber)
    IN  IF won.err # "ok" THEN won
        ELSE losersLoop(won.db, losers, 1, round.roundNumber, isLastRound)

RoundActiveBids(db, r) == BidsWhere(db, db.rounds[r].roundNumber, "active")

\* completeRound without the check of the round's status
completeRoundAgain(db, r, sorted, t) ==
    IF r \notin RoundIds(db) THEN Result("NotFound", db)
    ELSE
    LET processed == processWinners(db, r, sorted)
        round2 == [db.rounds[r] EXCEPT !.status = "completed",
                                       !.actualEndTime = t,
                                       !.winnersProcessed = TRUE]
    IN  IF processed.err # "ok" THEN Result(processed.err, db)
        ELSE IF ~roundSaveOk(round2) THEN Result("SaveError", db)
        ELSE Result("ok", [processed.db EXCEPT !.rounds[r] = round2])

completeRound(db, r, sorted, t) ==
    IF r \notin RoundIds(db) THEN Result("NotFound", db)
    ELSE IF db.rounds[r].status # "active" THEN Result("Conflict", db)
    ELSE
    LET processed == processWinners(db, r, sorted)
        round2 == [db.rounds[r] EXCEPT !.status = "completed",
                                       !.actualEndTime = t,
                                       !.winnersProcessed = TRUE]
    IN  IF processed.err # "ok" THEN Result(processed.err, db)
        ELSE IF ~roundSaveOk(round2) THEN Result("SaveError", db)
        ELSE Result("ok", [processed.db EXCEPT !.rounds[r] = round2])

-----------------------------------------------------------------------------
(* UserService and AuctionService: read, change in memory, save            *)

LedgerOps(db) ==
    Cardinality({i \in DOMAIN db.transactions :
                    db.transactions[i].type \in {"deposit", "withdrawal"}})

deposit(db, userId, amount) ==
    LET user == db.users[userId]
        user2 == [user EXCEPT !.balance = @ + amount]
    IN  IF amount < 1 THEN Result("Validation", db)
        ELSE IF ~userSaveOk(user2) THEN Result("SaveError", db)
        ELSE Result("ok",
               [db EXCEPT
                  !.users[userId] = user2,
                  !.transactions = Append(@,
                      TransactionDoc(userId, "deposit", amount, None,
                                     user.balance, user2.balance))])

withdraw(db, userId, amount) ==
    LET user == db.users[userId]
        user2 == [user EXCEPT !.balance = @ - amount]
    IN  IF amount < 1 THEN Result("Validation", db)
        ELSE IF getAvailableBalance(user) < amount
        THEN Result("InsufficientBalance", db)
        ELSE IF ~userSaveOk(user2) THEN Result("SaveError", db)
        ELSE Result("ok",
               [db EXCEPT
                  !.users[userId] = user2,
                  !.transactions = Append(@,
                      TransactionDoc(userId, "withdrawal", amount, None,
                                     user.balance, user2.balance))])

\* auctionSchema.pre('save')
auctionSaveOk(a) == ~(a.currentRound > a.totalRounds)

cancelAuction(db) ==
    LET a2 == [db.auction EXCEPT !.status = "cancelled"]
    IN  IF db.auction.status = "completed" THEN Result("Conflict", db)
        ELSE IF db.auction.status = "cancelled" THEN Result("Conflict", db)
        ELSE IF ~auctionSaveOk(a2) THEN Result("SaveError", db)
        ELSE Result("ok", [db EXCEPT !.auction = a2])

startAuction(db) ==
    LET a2 == [db.auction EXCEPT !.status = "active", !.currentRound = 1]
    IN  IF db.auction.status # "scheduled" THEN Result("Conflict", db)
        ELSE IF ~auctionSaveOk(a2) THEN Result("SaveError", db)
        ELSE Result("ok", [db EXCEPT !.auction = a2])

\* a completion check that waits for currentRound to pass totalRounds
checkAuctionCompletionStrict(db) ==
    LET activeRounds == Cardinality({r \in RoundIds(db) :
                                        db.rounds[r].status # "completed"})
        a2 == [db.auction EXCEPT !.status = "completed"]
    IN  IF db.auction.status # "active" THEN Result("ok", db)
        ELSE IF activeRounds = 0
                /\ db.auction.currentRound > db.auction.totalRounds
        THEN IF auctionSaveOk(a2) THEN Result("ok", [db EXCEPT !.auction = a2])
             ELSE Result("SaveError", db)
        ELSE Result("ok", db)

checkAuctionCompletion(db) ==
    LET activeRounds == Cardinality({r \in RoundIds(db) :
                                        db.rounds[r].status # "completed"})
        a2 == [db.auction EXCEPT !.status = "completed"]
    IN  IF db.auction.status # "active" THEN Result("ok", db)
        ELSE IF activeRounds = 0
                /\ db.auction.currentRound >= db.auction.totalRounds
        THEN IF auctionSaveOk(a2) THEN Result("ok", [db EXCEPT !.auction = a2])
             ELSE Result("SaveError", db)
        ELSE Result("ok", db)

-----------------------------------------------------------------------------
(* Anti-snipe extension and the round queue                                *)

Job(name, r, due) == [name |-> name, round |-> r, due |-> due]

JobsOf(jb, name, r) == {j \in jb : j.name = name /\ j.round = r}

\* roundQueue.add with a jobId: a job already queued under the id stays
addJob(jb, name, r, due) ==
    IF JobsOf(jb, name, r) # {} THEN jb ELSE jb \cup {Job(name, r, due)}

scheduleRoundStart(jb, r, scheduledTime, t) ==
    IF scheduledTime - t > 0 THEN addJob(jb, "start-round", r, scheduledTime)
    ELSE jb

scheduleRoundEnd(jb, r, scheduledTime, t) ==
    IF scheduledTime - t > 0 THEN addJob(jb, "end-round", r, scheduledTime)
    ELSE jb

rescheduleRoundEnd(jb, r, newEndTime, t) ==
    scheduleRoundEnd(jb \ JobsOf(jb, "end-round", r), r, newEndTime, t)

\* checkAntiSnipe up to its call of extendRound
antiSnipeApplies(round, t, antiSnipeWindow, maxExtensions) ==
    /\ round.actualEndTime # None
    /\ isInAntiSnipeWindow(t, round.actualEndTime, antiSnipeWindow)
    /\ canExtend(round, maxExtensions)

\* extendRound on the round as loaded: the round to save, or the round
\* unchanged when it cannot be extended
extendRound(db, r, extensionSeconds, t) ==
    LET round == db.rounds[r]
        round2 == extend(round, extensionSeconds, t)
    IN  IF ~canExtend(round, db.auction.maxExtensions)
        THEN Result("noop", db)
        ELSE IF ~roundSaveOk(round2) THEN Result("SaveError", db)
        ELSE Result("ok", [db EXCEPT !.rounds[r] = round2])

\* checkAntiSnipe run without interruption
checkAntiSnipe(db, r, t) ==
    IF antiSnipeApplies(db.rounds[r], t, db.auction.antiSnipeWindow,
                        db.auction.maxExtensions)
    THEN extendRound(db, r, db.auction.antiSnipeExtension, t)
    ELSE Result("noop", db)

-----------------------------------------------------------------------------
(* Applying writes                                                         *)

\* save(): the fields changed in memory are set, the others keep their
\* stored values
FieldMerge(cur, old, new) ==
    [f \in DOMAIN cur |-> IF old[f] # new[f] THEN new[f] ELSE cur[f]]

Merge(cur, snap, res) ==
    [users |-> [u \in Users |->
                  FieldMerge(cur.users[u], snap.users[u], res.users[u])],
     auction |-> FieldMerge(cur.auction, snap.auction, res.auction),
     rounds |-> [r \in RoundIds(cur) |->
                   FieldMerge(cur.rounds[r], snap.rounds[r], res.rounds[r])],
     bids |-> [b \in DOMAIN cur.bids \cup DOMAIN res.bids |->
                 IF b \notin DOMAIN snap.bids
                 THEN IF b \in DOMAIN res.bids THEN res.bids[b]
                      ELSE cur.bids[b]
                 ELSE FieldMerge(cur.bids[b], snap.bids[b], res.bids[b])],
     wonItems |-> cur.wonItems \cup (res.wonItems \ snap.wonItems),
     transactions |-> cur.transactions \o
                        SubSeq(res.transactions, Len(snap.transactions) + 1,
                               Len(res.transactions))]

\* the documents that differ between two states of the store
ChangedKeys(a, b) ==
    {<<"user", u>> : u \in {x \in Users : a.users[x] # b.users[x]}}
    \cup {<<"round", r>> : r \in {x \in RoundIds(a) : a.rounds[x] # b.rounds[x]}}
    \cup {<<"bid", i>> : i \in {x \in DOMAIN b.bids :
                                   \/ x \notin DOMAIN a.bids
                                   \/ a.bids[x] # b.bids[x]}}
    \cup (IF a.auction # b.auction THEN {<<"auction", 0>>} ELSE {})

Store(db) ==
    /\ users' = db.users
    /\ auction' = db.auction
    /\ rounds' = db.rounds
    /\ bids' = db.bids
    /\ wonItems' = db.wonItems
    /\ transactions' = db.transactions

InFlightTx == pend.op # "none" /\ pend.kind = "tx"

\* a write by somebody else to a document the transaction in flight has
\* written makes that transaction fail at commit
Disturbed(db) ==
    IF /\ InFlightTx
       /\ ChangedKeys(DB, db) \cap ChangedKeys(pend.snap, pend.res.db) # {}
    THEN [pend EXCEPT !.doomed = TRUE]
    ELSE pend


\* ids free for a new bid document
FreshBidIds ==
    {i \in BidIds : /\ i \notin DOMAIN bids
                    /\ ~(InFlightTx /\ i \in DOMAIN pend.res.db.bids)}

FreshBidId == CHOOSE i \in FreshBidIds : \A j \in FreshBidIds : i <= j

-----------------------------------------------------------------------------
(* Handlers run without interruption                                       *)

Finish(op, err, db, jb) ==
    /\ Store(db)
    /\ pend' = Disturbed(db)
    /\ jobs' = jb
    /\ now' = now

\* the anti-snipe check made by placeBid and increaseBid after their commit
AfterBid(res, r, op) ==
    LET snipe == IF res.err = "ok" /\ r # None
                 THEN checkAntiSnipe(res.db, r, now)
                 ELSE Result("noop", res.db)
        jb == IF snipe.err = "ok"
              THEN rescheduleRoundEnd(jobs, r,
                                      snipe.db.rounds[r].actualEndTime, now)
              ELSE jobs
    IN  Finish(op, res.err, snipe.db, jb)

\* Round.findOne({auctionId, roundNumber: bid.currentRound, status: 'active'})
BidRoundIfActive(db, bidId) ==
    IF /\ bidId \in DOMAIN db.bids
       /\ db.bids[bidId].currentRound \in ActiveRounds(db)
    THEN db.bids[bidId].currentRound
    ELSE None

PlaceBid(u, amount) ==
    /\ FreshBidIds # {}
    /\ \E r \in FindActiveRound(DB) :
          AfterBid(placeBid(DB, u, amount, r, FreshBidId, now), r, "placeBid")

IncreaseBid(b, newAmount) ==
    /\ b \in DOMAIN bids
    /\ LET res == increaseBid(DB, b, bids[b].userId, newAmount)
       IN  AfterBid(res, BidRoundIfActive(res.db, b), "increaseBid")

CancelBid(b) ==
    /\ b \in DOMAIN bids
    /\ LET res == cancelBid(DB, b, bids[b].userId)
       IN  Finish("cancelBid", res.err, res.db, jobs)

Deposit(u, amount) ==
    /\ LedgerOps(DB) < MaxLedgerOps
    /\ LET res == deposit(DB, u, amount)
       IN  Finish("deposit", res.err, res.db, jobs)

Withdraw(u, amount) ==
    /\ LedgerOps(DB) < MaxLedgerOps
    /\ LET res == withdraw(DB, u, amount)
       IN  Finish("withdraw", res.err, res.db, jobs)

StartAuction ==
    LET res == startAuction(DB)
    IN  Finish("startAuction", res.err, res.db, jobs)

CancelAuction ==
    LET res == cancelAuction(DB)
    IN  Finish("cancelAuction", res.err, res.db, jobs)

\* the cron job checkAuctionCompletions, for an active auction
CheckAuctionCompletions ==
    /\ auction.status = "active"
    /\ LET res == checkAuctionCompletion(DB)
       IN  Finish("checkAuctionCompletion", res.err, res.db, jobs)

\* scheduleAuctionRounds: a start-round job for every round still to come
ScheduleAuctionRounds ==
    /\ \A r \in RoundIds(DB) : JobsOf(jobs, "start-round", r) = {}
    /\ \E r \in RoundIds(DB) : rounds[r].scheduledStartTime > now
    /\ jobs' = jobs \cup {Job("start-round", r, rounds[r].scheduledStartTime) :
                            r \in {x \in RoundIds(DB) :
                                      rounds[x].scheduledStartTime > now}}
    /\ UNCHANGED <<users, auction, rounds, bids, wonItems, transactions,
                   now, pend>>

\* a queued job whose delay has passed; it is delivered at least once
DueJobs(name, r) == {j \in JobsOf(jobs, name, r) : j.due <= now}

\* worker, job start-round: startRound, then the end-round job
ProcessRoundStart(r, redeliver) ==
    /\ DueJobs("start-round", r) # {}
    /\ LET res == startRound(DB, r, now)
           left == IF redeliver THEN jobs
                   ELSE jobs \ JobsOf(jobs, "start-round", r)
           jb == IF res.err = "ok"
                 THEN scheduleRoundEnd(left, r,
                                       res.db.rounds[r].actualEndTime, now)
                 ELSE left
       IN  Finish("startRound", res.err, res.db, jb)

\* worker, job end-round: completeRound, then checkAuctionCompletion
ProcessRoundEnd(r, redeliver) ==
    /\ DueJobs("end-round", r) # {}
    /\ \E sorted \in SortedBids(DB, RoundActiveBids(DB, r)) :
          LET res == completeRound(DB, r, sorted, now)
              chk == IF res.err = "ok" THEN checkAuctionCompletion(res.db)
                     ELSE res
              left == IF redeliver THEN jobs
                      ELSE jobs \ JobsOf(jobs, "end-round", r)
          IN  Finish("completeRound", res.err, chk.db, left)

\* sweeper checkScheduledRounds: every round it listed (scheduled, start
\* time passed) is started; the list may be stale when the call is made
CheckScheduledRounds(r) ==
    /\ rounds[r].scheduledStartTime <= now
    /\ LET res == startRound(DB, r, now)
       IN  Finish("startRound", res.err, res.db, jobs)

\* sweeper checkCompletedRounds: every round it listed (active, end time
\* passed, winners not processed) is completed
CheckCompletedRounds(r) ==
    /\ rounds[r].actualEndTime # None
    /\ rounds[r].actualEndTime <= now
    /\ \E sorted \in SortedBids(DB, RoundActiveBids(DB, r)) :
          LET res == completeRound(DB, r, sorted, now)
          IN  Finish("completeRound", res.err, res.db, jobs)

\* the clock advances, up to a horizon
TickTo(horizon) ==
    /\ now < horizon
    /\ now' = now + 1
    /\ UNCHANGED <<users, auction, rounds, bids, wonItems, transactions,
                   jobs, pend>>

Tick == TickTo(MaxTime)

-----------------------------------------------------------------------------
(* One handler in flight: its steps, with other handlers in between        *)

NoStoreChange ==
    UNCHANGED <<users, auction, rounds, bids, wonItems, transactions>>

\* a session transaction whose body has run on the snapshot and that has
\* not committed yet; r is the round it works on
BeginTx(op, res, r) ==
    /\ pend.op = "none"
    /\ res.err = "ok"
    /\ pend' = [op |-> op, kind |-> "tx", snap |-> DB, res |-> res,
                round |-> r, doomed |-> FALSE]
    /\ NoStoreChange
    /\ UNCHANGED <<jobs, now>>

BeginPlaceBid(u, amount) ==
    /\ FreshBidIds # {}
    /\ \E r \in FindActiveRound(DB) :
          BeginTx("placeBid",
                  placeBid(DB, u, amount, r, FreshBidId, now), r)

BeginIncreaseBid(b, newAmount) ==
    /\ b \in DOMAIN bids
    /\ BeginTx("increaseBid", increaseBid(DB, b, bids[b].userId, newAmount),
               bids[b].currentRound)

\* startRound called by the sweeper checkScheduledRounds
BeginStartRound(r) ==
    /\ rounds[r].scheduledStartTime <= now
    /\ BeginTx("startRound", startRound(DB, r, now), r)

\* completeRound called by the sweeper checkCompletedRounds
BeginCompleteRound(r) ==
    /\ rounds[r].actualEndTime # None
    /\ rounds[r].actualEndTime <= now
    /\ \E sorted \in SortedBids(DB, RoundActiveBids(DB, r)) :
          BeginTx("completeRound", completeRound(DB, r, sorted, now), r)

\* the inserts of the transaction meet the unique indexes
InsertsOk ==
    \A w \in pend.res.db.wonItems \ pend.snap.wonItems :
        wonItemInsertOk(DB, w)

Commits == ~pend.doomed /\ InsertsOk

\* what the handler in flight throws at its commit: the store's write
\* conflict, the duplicate key of a unique index, or nothing
CommitError ==
    IF pend.doomed THEN "WriteConflict"
    ELSE IF ~InsertsOk THEN "DuplicateKey"
    ELSE "ok"

\* what the handler does after its commit: placeBid and increaseBid go on
\* to checkAntiSnipe on the round they found active
AfterCommit ==
    IF /\ pend.op \in {"placeBid", "increaseBid"}
       /\ pend.round \in ActiveRounds(pend.snap)
    THEN [op |-> "checkAntiSnipe", kind |-> "snipe", pc |-> "check",
          round |-> pend.round]
    ELSE Idle

CommitTx ==
    /\ InFlightTx
    /\ IF Commits
       THEN /\ Store(Merge(DB, pend.snap, pend.res.db))
            /\ pend' = AfterCommit
       ELSE /\ NoStoreChange
            /\ pend' = Idle
    /\ UNCHANGED <<jobs, now>>

\* deposit and withdraw: the user is read and changed in memory ...
BeginSave(op, res) ==
    /\ pend.op = "none"
    /\ res.err = "ok"
    /\ LedgerOps(DB) < MaxLedgerOps
    /\ pend' = [op |-> op, kind |-> "save", snap |-> DB, res |-> res]
    /\ NoStoreChange
    /\ UNCHANGED <<jobs, now>>

BeginDeposit(u, amount) == BeginSave("deposit", deposit(DB, u, amount))

BeginWithdraw(u, amount) == BeginSave("withdraw", withdraw(DB, u, amount))

\* ... and saved, and the Transaction document created
Save ==
    /\ pend.op # "none"
    /\ pend.kind = "save"
    /\ Store(Merge(DB, pend.snap, pend.res.db))
    /\ pend' = Idle
    /\ UNCHANGED <<jobs, now>>

InSnipe(pc) == pend.op # "none" /\ pend.kind = "snipe" /\ pend.pc = pc

\* checkAntiSnipe: getRoundById, window and canExtend
SnipeCheck ==
    /\ InSnipe("check")
    /\ pend' = IF antiSnipeApplies(rounds[pend.round], now,
                                   auction.antiSnipeWindow,
                                   auction.maxExtensions)
               THEN [pend EXCEPT !.pc = "extend"]
               ELSE Idle
    /\ NoStoreChange
    /\ UNCHANGED <<jobs, now>>

\* extendRound: round and auction are loaded, canExtend, extend in memory
SnipeExtend ==
    /\ InSnipe("extend")
    /\ LET res == extendRound(DB, pend.round, auction.antiSnipeExtension, now)
       IN  pend' = IF res.err = "ok"
                   THEN [op |-> "checkAntiSnipe", kind |-> "snipe",
                         pc |-> "save", round |-> pend.round,
                         snap |-> DB, res |-> res]
                   ELSE Idle
    /\ NoStoreChange
    /\ UNCHANGED <<jobs, now>>

\* extendRound: round.save(), then rescheduleRoundEnd
SnipeSave ==
    /\ InSnipe("save")
    /\ Store(Merge(DB, pend.snap, pend.res.db))
    /\ jobs' = rescheduleRoundEnd(jobs, pend.round,
                   pend.res.db.rounds[pend.round].actualEndTime, now)
    /\ pend' = Idle
    /\ now' = now

-----------------------------------------------------------------------------
(* Events published to the auction's subscribers                           *)

Event(type, r, bidId, amount, endTime, count) ==
    [type |-> type, round |-> r, bid |-> bidId, amount |-> amount,
     endTime |-> endTime, count |-> count]

\* events published whether the call has thrown or not
PublishAlways(res, events) == events

\* the emit calls stand after the commit or the save: they are reached
\* only when nothing has thrown before them
PublishIfOk(res, events) == IF res.err = "ok" THEN events ELSE {}

\* emitBidPlaced or emitBidIncreased, and emitLeaderboardUpdated
BidEvents(type, bidId, amount, r) ==
    {Event(type, r, bidId, amount, None, None),
     Event("leaderboard:updated", r, None, None, None, None)}

\* emitRoundExtended, from the round as extendRound has saved it
ExtensionEvents(snipe, r) ==
    IF r = None THEN {}
    ELSE PublishIfOk(snipe,
           {Event("round:extended", r, None, None,
                  snipe.db.rounds[r].actualEndTime,
                  snipe.db.rounds[r].extensionsCount)})

\* what placeBid and increaseBid publish: the bid's events after the
\* commit, then the extension's from checkAntiSnipe
BidPublishes(type, res, bidId, amount, bidRound, r) ==
    PublishIfOk(res, BidEvents(type, bidId, amount, bidRound))
    \cup ExtensionEvents(IF res.err = "ok" /\ r # None
                         THEN checkAntiSnipe(res.db, r, now)
                         ELSE Result("noop", res.db), r)

\* the documents written by the transaction in flight
PendBids ==
    {b \in DOMAIN pend.res.db.bids :
        \/ b \notin DOMAIN pend.snap.bids
        \/ pend.res.db.bids[b] # pend.snap.bids[b]}

\* what a step publishes, handler by handler
Published ==
    UNION {IF FreshBidIds # {}
              /\ AfterBid(placeBid(DB, x[1], x[2], x[3], FreshBidId, now),
                          x[3], "placeBid")
           THEN BidPublishes("bid:placed",
                             placeBid(DB, x[1], x[2], x[3], FreshBidId, now),
                             FreshBidId, x[2], x[3], x[3])
           ELSE {} : x \in Users \X BidAmounts \X FindActiveRound(DB)}
    \cup UNION {IF IncreaseBid(x[1], x[2])
                THEN LET res == increaseBid(DB, x[1], bids[x[1]].userId, x[2])
                     IN  BidPublishes("bid:increased", res, x[1], x[2],
                                      bids[x[1]].currentRound,
                                      BidRoundIfActive(res.db, x[1]))
                ELSE {} : x \in (DOMAIN bids) \X NewAmounts}
    \cup (IF CommitTx /\ pend.op \in {"placeBid", "increaseBid"}
          THEN UNION {PublishIfOk([err |-> CommitError],
                         BidEvents(IF pend.op = "placeBid" THEN "bid:placed"
                                   ELSE "bid:increased",
                                   b, pend.res.db.bids[b].amount,
                                   pend.res.db.bids[b].currentRound)) :
                      b \in PendBids}
          ELSE {})
    \cup (IF SnipeSave THEN ExtensionEvents(pend.res, pend.round) ELSE {})
    \cup UNION {IF ProcessRoundStart(x[1], x[2])
                THEN PublishIfOk(startRound(DB, x[1], now),
                        {Event("round:started", x[1], None, None, None, None)})
                ELSE {} : x \in RoundIds(DB) \X BOOLEAN}
    \cup UNION {IF ProcessRoundEnd(x[1], x[2])
                THEN UNION {PublishIfOk(completeRound(DB, x[1], sorted, now),
                               {Event("round:completed", x[1], None, None,
                                      None, rounds[x[1]].itemsInRound)}) :
                            sorted \in SortedBids(DB, RoundActiveBids(DB, x[1]))}
                ELSE {} : x \in RoundIds(DB) \X BOOLEAN}

-----------------------------------------------------------------------------
(* Specifications                                                          *)

\* the auction's life, one handler at a time
Next ==
    \/ \E u \in Users, a \in BidAmounts : PlaceBid(u, a)
    \/ \E b \in BidIds, a \in NewAmounts : IncreaseBid(b, a)
    \/ \E b \in BidIds : CancelBid(b)
    \/ StartAuction
    \/ CancelAuction
    \/ CheckAuctionCompletions
    \/ \E r \in RoundIds(DB), k \in BOOLEAN : ProcessRoundEnd(r, k)
    \/ \E r \in RoundIds(DB) : CheckScheduledRounds(r)
    \/ \E r \in RoundIds(DB) : CheckCompletedRounds(r)
    \/ Tick

Spec == Init /\ [][Next]_vars

\* the same with rounds of several items
SpecLarge == InitLarge /\ [][Next]_vars

\* the ledger while bids are made: deposits and withdrawals between and
\* during the bids
NextLedger ==
    \/ \E u \in Users, a \in BidAmounts : PlaceBid(u, a)
    \/ \E b \in BidIds, a \in NewAmounts : IncreaseBid(b, a)
    \/ \E u \in Users, a \in CashAmounts : Deposit(u, a)
    \/ \E u \in Users, a \in CashAmounts : Withdraw(u, a)
    \/ \E u \in Users, a \in CashAmounts : BeginDeposit(u, a)
    \/ \E u \in Users, a \in CashAmounts : BeginWithdraw(u, a)
    \/ Save
    \/ \E r \in RoundIds(DB) : CheckScheduledRounds(r)
    \/ TickTo(BiddingTime)

SpecLedger == Init /\ [][NextLedger]_vars

\* bids and anti-snipe extensions, two handlers at a time, in auctions
\* created with and without maxExtensions
NextSnipe ==
    \/ \E u \in Users, a \in BidAmounts : PlaceBid(u, a)
    \/ \E b \in BidIds, a \in NewAmounts : IncreaseBid(b, a)
    \/ \E u \in Users, a \in BidAmounts : BeginPlaceBid(u, a)
    \/ \E b \in BidIds, a \in NewAmounts : BeginIncreaseBid(b, a)
    \/ CommitTx
    \/ SnipeCheck
    \/ SnipeExtend
    \/ SnipeSave
    \/ \E r \in RoundIds(DB) : CheckScheduledRounds(r)
    \/ \E r \in RoundIds(DB) : CheckCompletedRounds(r)
    \/ TickTo(BiddingTime)

SpecSnipe == InitOptional /\ [][NextSnipe]_vars

\* round starts and round ends, from the queue and from the sweeper, two
\* handlers at a time
NextRounds ==
    \/ \E u \in Users, a \in BidAmounts : PlaceBid(u, a)
    \/ \E r \in RoundIds(DB) : BeginStartRound(r)
    \/ \E r \in RoundIds(DB) : BeginCompleteRound(r)
    \/ CommitTx
    \/ ScheduleAuctionRounds
    \/ \E r \in RoundIds(DB), k \in BOOLEAN : ProcessRoundStart(r, k)
    \/ \E r \in RoundIds(DB), k \in BOOLEAN : ProcessRoundEnd(r, k)
    \/ \E r \in RoundIds(DB) : CheckScheduledRounds(r)
    \/ \E r \in RoundIds(DB) : CheckCompletedRounds(r)
    \/ TickTo(BiddingTime)

SpecRounds == Init /\ [][NextRounds]_vars

\* extendRound's save of the extended round; the job queue is touched later
SnipeStore ==
    /\ InSnipe("save")
    /\ Store(Merge(DB, pend.snap, pend.res.db))
    /\ pend' = [pend EXCEPT !.pc = "reschedule"]
    /\ UNCHANGED <<jobs, now>>

\* extendRound's call of rescheduleRoundEnd after the save
SnipeReschedule ==
    /\ InSnipe("reschedule")
    /\ jobs' = rescheduleRoundEnd(jobs, pend.round,
                   pend.res.db.rounds[pend.round].actualEndTime, now)
    /\ pend' = Idle
    /\ NoStoreChange
    /\ now' = now

\* bids whose extension saves the round and then reschedules its timer, with
\* the queue's processors running in between
NextTimers ==
    \/ \E u \in Users :
          /\ Cardinality(DOMAIN bids) < MaxRaisedBids
          /\ BeginPlaceBid(u, auction.minBid)
    \/ CommitTx
    \/ SnipeCheck
    \/ SnipeExtend
    \/ SnipeStore
    \/ SnipeReschedule
    \/ ScheduleAuctionRounds
    \/ \E r \in RoundIds(DB), k \in BOOLEAN : ProcessRoundStart(r, k)
    \/ \E r \in RoundIds(DB), k \in BOOLEAN : ProcessRoundEnd(r, k)
    \/ Tick

SpecTimers == Init /\ [][NextTimers]_vars

\* the first round of a sweep: getScheduledRounds sorts by scheduledStartTime
FirstScheduled(r) ==
    /\ rounds[r].status = "scheduled"
    /\ \A q \in RoundIds(DB) :
          rounds[q].status = "scheduled"
          => rounds[r].scheduledStartTime <= rounds[q].scheduledStartTime

\* a round is more than one sweep period late
Overdue ==
    \E r \in RoundIds(DB) :
        \/ rounds[r].status = "scheduled" /\ rounds[r].scheduledStartTime < now
        \/ /\ rounds[r].status = "active"
           /\ rounds[r].actualEndTime # None
           /\ rounds[r].actualEndTime < now

\* the three cron sweeps and the end-round timers of extended rounds, each
\* run fairly, with bids during the first round; the clock waits for a sweep
\* that is overdue
NextTermination ==
    \/ \E u \in Users :
          /\ Cardinality(DOMAIN bids) < MaxRaisedBids
          /\ now < BiddingTime
          /\ PlaceBid(u, auction.minBid)
    \/ \E r \in RoundIds(DB) : FirstScheduled(r) /\ CheckScheduledRounds(r)
    \/ \E r \in RoundIds(DB) : CheckCompletedRounds(r)
    \/ \E r \in RoundIds(DB) : ProcessRoundEnd(r, FALSE)
    \/ CheckAuctionCompletions
    \/ ~Overdue /\ TickTo(TerminationTime)

SpecTermination ==
    /\ Init
    /\ [][NextTermination]_vars
    /\ WF_vars(\E r \in RoundIds(DB) :
                  FirstScheduled(r) /\ CheckScheduledRounds(r))
    /\ WF_vars(\E r \in RoundIds(DB) : CheckCompletedRounds(r))
    /\ WF_vars(\E r \in RoundIds(DB) : ProcessRoundEnd(r, FALSE))
    /\ WF_vars(CheckAuctionCompletions)
    /\ WF_vars(~Overdue /\ TickTo(TerminationTime))

\* bids, extensions and the round jobs, with the events they publish
NextEvents ==
    \/ \E u \in Users :
          /\ Cardinality(DOMAIN bids) < MaxRaisedBids
          /\ PlaceBid(u, auction.minBid)
    \/ \E u \in Users :
          /\ Cardinality(DOMAIN bids) < MaxRaisedBids
          /\ BeginPlaceBid(u, auction.minBid)
    \/ \E b \in BidIds, a \in NewAmounts : BeginIncreaseBid(b, a)
    \/ CommitTx
    \/ SnipeCheck
    \/ SnipeExtend
    \/ SnipeSave
    \/ ScheduleAuctionRounds
    \/ \E r \in RoundIds(DB), k \in BOOLEAN : ProcessRoundStart(r, k)
    \/ \E r \in RoundIds(DB), k \in BOOLEAN : ProcessRoundEnd(r, k)
    \/ TickTo(BiddingTime)

SpecEvents == Init /\ [][NextEvents]_vars

\* bids placed while a round is completed, and bids cancelled
NextCancel ==
    \/ \E u \in Users : /\ Cardinality(DOMAIN bids) < MaxRaisedBids
                         /\ PlaceBid(u, auction.minBid)
    \/ \E u \in Users : /\ Cardinality(DOMAIN bids) < MaxRaisedBids
                         /\ BeginPlaceBid(u, auction.minBid)
    \/ CommitTx
    \/ SnipeCheck
    \/ SnipeExtend
    \/ SnipeSave
    \/ \E b \in BidIds : CancelBid(b)
    \/ \E r \in RoundIds(DB) : CheckScheduledRounds(r)
    \/ \E r \in RoundIds(DB) : CheckCompletedRounds(r)
    \/ Tick

SpecCancel == Init /\ [][NextCancel]_vars

\* auctions of every size, created and run by the sweepers with no bids
NextCreate ==
    \/ \E r \in RoundIds(DB) : CheckScheduledRounds(r)
    \/ \E r \in RoundIds(DB) : CheckCompletedRounds(r)
    \/ TickTo(BiddingTime)

SpecCreate == InitAll /\ [][NextCreate]_vars

\* the timers lost: no job is ever queued, and the two sweepers are the only
\* callers of startRound and completeRound; each is run again and again
NextSweep ==
    \/ \E u \in Users : /\ Cardinality(DOMAIN bids) < MaxRaisedBids
                         /\ now < BiddingTime
                         /\ PlaceBid(u, auction.minBid)
    \/ \E r \in RoundIds(DB) : CheckScheduledRounds(r)
    \/ \E r \in RoundIds(DB) : CheckCompletedRounds(r)
    \/ Tick

SpecSweep ==
    /\ Init
    /\ [][NextSweep]_vars
    /\ WF_vars(\E r \in RoundIds(DB) : CheckScheduledRounds(r))
    /\ WF_vars(\E r \in RoundIds(DB) : CheckCompletedRounds(r))

\* bids raised again and again, by amounts below, at and above the step
NextIncrease ==
    \/ \E u \in Users : /\ Cardinality(DOMAIN bids) < MaxRaisedBids
                         /\ PlaceBid(u, auction.minBid)
    \/ \E b \in BidIds, a \in IncreaseAmounts : IncreaseBid(b, a)
    \/ \E r \in RoundIds(DB) : CheckScheduledRounds(r)
    \/ \E r \in RoundIds(DB) : CheckCompletedRounds(r)
    \/ Tick

SpecIncrease == Init /\ [][NextIncrease]_vars

-----------------------------------------------------------------------------
(* Properties                                                              *)

RECURSIVE SumAmounts(_)
SumAmounts(S) ==
    IF S = {} THEN 0
    ELSE LET b == CHOOSE x \in S : TRUE
         IN  bids[b].amount + SumAmounts(S \ {b})

\* the bids of a user that hold a reservation
HoldingBids(u) ==
    UserBidsWhere(DB, u, "active") \cup UserBidsWhere(DB, u, "carried_over")

\* C1: in every reachable state every user has
\* 0 <= reservedBalance <= balance, also when a withdrawal runs together
\* with placeBid or increaseBid.
\* Under SpecLedger this fails: withdraw reads the user, placeBid commits a
\* reservation, withdraw saves the balance it computed.
LedgerInvariant ==
    \A u \in Users :
        /\ 0 <= users[u].reservedBalance
        /\ users[u].reservedBalance <= users[u].balance

\* C2: a user's reservedBalance is the sum of the amounts of their bids with
\* status active or carried_over.
ReservationConservation ==
    \A u \in Users : users[u].reservedBalance = SumAmounts(HoldingBids(u))

\* a round was completed with a winner and a loser carried over, and the
\* loser's reservation is still held
ReservationWitness ==
    /\ \E b \in DOMAIN bids : bids[b].status = "won"
    /\ \E b \in DOMAIN bids :
          /\ bids[b].status = "carried_over"
          /\ users[bids[b].userId].reservedBalance >= bids[b].amount
    /\ \E b \in DOMAIN bids : bids[b].status = "active"

\* C3: for every user at most one bid of the auction is active or
\* carried_over; a user holding a carried_over bid cannot place a bid.
\* Under Spec this fails: placeBid looks for an active bid only, so the
\* loser of round 1, whose bid is carried_over, places a second bid in
\* round 2.
BidUniqueness ==
    \A u \in Users : Cardinality(HoldingBids(u)) <= 1

\* C4: when round k+1 starts, the bids that completeRound(k) left
\* carried_over are exactly the bids active in round k+1 after the start.
\* Under Spec this fails: completeRound moves the losers to currentRound
\* k+1 and carryOverBids looks for carried_over bids with currentRound k.
CarryOverConservation ==
    [][\A r \in RoundIds(DB) :
          (/\ rounds[r].roundNumber > 1
           /\ rounds[r].status = "scheduled"
           /\ rounds'[r].status = "active")
          => {b \in DOMAIN bids : /\ bids[b].status = "carried_over"
                                  /\ bids[b].currentRound = r}
             = {b \in DOMAIN bids' : /\ bids'[b].status = "active"
                                     /\ bids'[b].currentRound = r}]_vars

\* C5: the bids a completing round marks won are the first
\* min(itemsInRound, number of active bids) of its active bids by amount
\* descending, then createdAt ascending; every other active bid of the round
\* is refunded (last round) or carried_over.
WinnerOrder ==
    [][\A r \in RoundIds(DB) :
          (rounds[r].status = "active" /\ rounds'[r].status = "completed")
          => LET A == {b \in DOMAIN bids : /\ bids[b].status = "active"
                                           /\ bids[b].currentRound = r}
                 W == {b \in A : bids'[b].status = "won"}
             IN  /\ Cardinality(W) =
                       IF rounds[r].itemsInRound < Cardinality(A)
                       THEN rounds[r].itemsInRound ELSE Cardinality(A)
                 /\ \A w \in W, l \in A \ W :
                       \/ bids[w].amount > bids[l].amount
                       \/ /\ bids[w].amount = bids[l].amount
                          /\ bids[w].createdAt <= bids[l].createdAt
                 /\ \A l \in A \ W :
                       bids'[l].status =
                          IF r >= auction.totalRounds THEN "refunded"
                          ELSE "carried_over"
                 /\ \A b \in DOMAIN bids \ A : bids'[b].status # "won"
                                                \/ bids[b].status = "won"]_vars

\* two bids of equal amount met in a round of one item: the earlier one
\* has won, the later one is carried over or refunded
WinnerOrderWitness ==
    \E w \in DOMAIN bids, l \in DOMAIN bids :
        /\ bids[w].status = "won"
        /\ bids[l].status \in {"carried_over", "refunded"}
        /\ bids[w].amount = bids[l].amount
        /\ bids[w].createdAt < bids[l].createdAt
        /\ bids[w].createdInRound = bids[l].createdInRound
        /\ rounds[bids[w].wonInRound].status = "completed"

\* C6: the item numbers of the WonItems are pairwise distinct and lie in
\* 1 .. totalItems, a bid has at most one WonItem, and the items of round r
\* lie in (r-1)*itemsPerRound + 1 .. (r-1)*itemsPerRound + itemsInRound.
ItemUniqueness ==
    /\ \A v \in wonItems, w \in wonItems :
          v # w => v.itemNumber # w.itemNumber /\ v.bidId # w.bidId
    /\ \A w \in wonItems :
          /\ w.itemNumber >= 1
          /\ w.itemNumber <= auction.totalItems
          /\ w.itemNumber >= (w.roundNumber - 1) * auction.itemsPerRound + 1
          /\ w.itemNumber <= (w.roundNumber - 1) * auction.itemsPerRound
                               + rounds[w.roundNumber].itemsInRound
    /\ \A b \in DOMAIN bids :
          bids[b].status = "won"
             => \E w \in wonItems : /\ w.bidId = b
                                    /\ w.itemNumber = bids[b].wonItemNumber

\* every item of an auction of rounds of two and one items has been won
ItemUniquenessWitness ==
    /\ Cardinality(wonItems) = auction.totalItems
    /\ \E v \in wonItems, w \in wonItems :
          v # w /\ v.roundNumber = w.roundNumber
    /\ \E w \in wonItems : w.roundNumber = auction.totalRounds

TransactionsOf(b, type) ==
    {i \in DOMAIN transactions : /\ transactions[i].bidId = b
                                 /\ transactions[i].type = type}

\* C8: completeRound on a round already completed changes nothing, called
\* again afterwards or concurrently by the end-round job and the sweeper:
\* the second call is rejected or its transaction aborts, no bid is charged
\* or refunded twice and a round hands out no more items than it has.
CompleteRoundIdempotent ==
    /\ \A r \in RoundIds(DB) :
          rounds[r].status = "completed"
             => \A sorted \in SortedBids(DB, RoundActiveBids(DB, r)) :
                   completeRound(DB, r, sorted, now).db = DB
    /\ (/\ InFlightTx
        /\ pend.op = "completeRound"
        /\ rounds[pend.round].status = "completed") => ~Commits
    /\ \A b \in DOMAIN bids :
          /\ Cardinality(TransactionsOf(b, "bid_won")) <= 1
          /\ Cardinality(TransactionsOf(b, "bid_refunded")) <= 1
          /\ Cardinality({w \in wonItems : w.bidId = b}) <= 1
    /\ \A r \in RoundIds(DB) :
          Cardinality({w \in wonItems : w.roundNumber = r})
             <= rounds[r].itemsInRound

\* the sweeper's completeRound is in flight and the end-round job has
\* completed the same round, with a winner, in the meantime
CompleteRoundTwiceWitness ==
    /\ InFlightTx
    /\ pend.op = "completeRound"
    /\ rounds[pend.round].status = "completed"
    /\ pend.res.db.wonItems # {}
    /\ wonItems = pend.res.db.wonItems

CarriedOverEntries(b, r) ==
    {i \in DOMAIN bids[b].history :
        /\ bids[b].history[i].action = "carried_over"
        /\ bids[b].history[i].round = r}

CancelReleases ==
    auction.status = "cancelled"
       => /\ \A b \in DOMAIN bids :
                bids[b].status \notin {"active", "carried_over"}
          /\ \A u \in Users : users[u].reservedBalance = 0

\* the bids of user u created after the store was in state db
PlacedSince(db, u) ==
    {b \in DOMAIN bids \ DOMAIN db.bids : bids[b].userId = u}

\* C11: of two placeBid requests of one user running together exactly one
\* succeeds, the other fails with Conflict and changes nothing, and the
\* auction ends with one bid of the user and the reservation of that bid.
\* Under SpecSnipe this fails: both requests find no active bid, the second
\* to write the user document gets the store's write conflict, which is
\* not a ConflictError.
PlaceBidRace ==
    [][\A u \in Users :
          (/\ InFlightTx
           /\ pend.op = "placeBid"
           /\ pend.res.db.users[u] # pend.snap.users[u]
           /\ Cardinality(PlacedSince(pend.snap, u)) = 1
           /\ \A b \in PlacedSince(pend.snap, u) :
                 bids[b].status = "active" /\ Len(bids[b].history) = 1
           /\ CommitTx)
          => /\ CommitError = "Conflict"
             /\ NoStoreChange
             /\ \A b \in PlacedSince(pend.snap, u) :
                   users[u].reservedBalance
                      = pend.snap.users[u].reservedBalance + bids[b].amount]_vars

\* a placeBid of user u for amount a that passes every check made before
\* the balance is looked at
BidPassesChecks(u, a) ==
    /\ a >= 1
    /\ auction.status = "active"
    /\ ActiveRounds(DB) # {}
    /\ a >= auction.minBid
    /\ \A b \in DOMAIN bids :
          ~(bids[b].userId = u /\ bids[b].status = "active")
    /\ FreshBidIds # {}

\* C12: a placeBid for more than the user's available balance, balance
\* minus reservedBalance, fails with InsufficientBalance and changes nothing:
\* the user, the bids and the transactions stay as they are.
PlaceBidInsufficient ==
    [][\A u \in Users, a \in BidAmounts \cup {InitialBalance + 100} :
          (/\ BidPassesChecks(u, a)
           /\ a > users[u].balance - users[u].reservedBalance)
          => /\ \A r \in ActiveRounds(DB) :
                   LET res == placeBid(DB, u, a, r, FreshBidId, now)
                   IN  res.err = "InsufficientBalance" /\ res.db = DB
             /\ PlaceBid(u, a) => NoStoreChange]_vars

\* a user whose balance would cover the bid, were a part of it not
\* reserved by a bid carried over, can place no bid of that amount
InsufficientWitness ==
    \E u \in Users, a \in BidAmounts :
        /\ BidPassesChecks(u, a)
        /\ users[u].reservedBalance > 0
        /\ a <= users[u].balance
        /\ a > users[u].balance - users[u].reservedBalance
        /\ \A r \in ActiveRounds(DB) :
              placeBid(DB, u, a, r, FreshBidId, now).err = "InsufficientBalance"

\* n is below amount a raised by the step of p percent and rounded to the
\* nearest hundredth
BelowStep(n, a, p) == 100 * n + 50 <= a * (100 + p)

\* C13: increaseBid of an active bid of amount a to n fails with BidTooLow
\* and changes nothing when n is below a * (1 + minBidStep/100) rounded to
\* two decimals; otherwise, the available balance covering n - a, it sets the
\* amount to n and raises reservedBalance by n - a, the balance unchanged.
\* With a = 100 and a step of 5 percent 104 is rejected and 105 accepted.
IncreaseBidStep ==
    [][\A b \in DOMAIN bids :
          bids[b].status = "active"
          => LET a == bids[b].amount
                 u == bids[b].userId
             IN  \A n \in IncreaseAmounts \cup {a - 1, a} :
                    LET res == increaseBid(DB, b, u, n)
                    IN  IF BelowStep(n, a, auction.minBidStep)
                        THEN /\ res.err = "BidTooLow"
                             /\ res.db = DB
                             /\ IncreaseBid(b, n) => NoStoreChange
                        ELSE users[u].balance - users[u].reservedBalance
                                >= n - a
                             => /\ res.err = "ok"
                                /\ res.db.bids[b].amount = n
                                /\ res.db.users[u].reservedBalance
                                      = users[u].reservedBalance + (n - a)
                                /\ res.db.users[u].balance = users[u].balance
                                /\ IncreaseBid(b, n)
                                      => /\ bids'[b].amount = n
                                         /\ users'[u].reservedBalance
                                               = users[u].reservedBalance
                                                 + (n - a)
                                         /\ users'[u].balance
                                               = users[u].balance]_vars

\* a bid of 100 has been raised to 105 and 5 more are reserved
IncreasedWitness ==
    \E b \in DOMAIN bids :
        /\ bids[b].status = "active"
        /\ bids[b].originalAmount = 100
        /\ bids[b].amount = 105
        /\ Len(bids[b].history) = 2
        /\ bids[b].history[2].action = "increased"
        /\ users[bids[b].userId].reservedBalance = 105
        /\ increaseBid(DB, b, bids[b].userId, 109).err = "BidTooLow"

NewTransactionsOf(b, type) ==
    {i \in DOMAIN transactions' \ DOMAIN transactions :
        /\ transactions'[i].bidId = b
        /\ transactions'[i].type = type}

\* C15: for each bid that completeRound marks won the owner's balance and
\* reservedBalance both decrease by the bid's amount, totalWins grows by 1,
\* totalSpent by the amount, and one bid_won transaction is written.
\* Under Spec this fails: the winner's reservation is released and the
\* balance is left as it was.
WinnerCommit ==
    [][\A b \in DOMAIN bids :
          (bids[b].status # "won" /\ bids'[b].status = "won")
          => LET u == bids[b].userId
                 a == bids[b].amount
             IN  /\ users'[u].balance = users[u].balance - a
                 /\ users'[u].reservedBalance = users[u].reservedBalance - a
                 /\ users'[u].totalWins = users[u].totalWins + 1
                 /\ users'[u].totalSpent = users[u].totalSpent + a
                 /\ Cardinality(NewTransactionsOf(b, "bid_won")) = 1]_vars

\* C16: whenever a bid is refunded, as a loser of the last round or by
\* cancelBid, the owner's reservedBalance decreases by the bid's amount, the
\* balance stays as it is and one bid_refunded transaction is written.
\* Under Spec this fails: refundBid adds the amount to the balance.
RefundKeepsBalance ==
    [][\A b \in DOMAIN bids :
          (bids[b].status # "refunded" /\ bids'[b].status = "refunded")
          => LET u == bids[b].userId
                 a == bids[b].amount
             IN  /\ users'[u].balance = users[u].balance
                 /\ users'[u].reservedBalance = users[u].reservedBalance - a
                 /\ Cardinality(NewTransactionsOf(b, "bid_refunded")) = 1]_vars

\* the reservation of user u according to the first n transactions: what
\* was placed and added, less what was won and refunded
RECURSIVE LoggedReserve(_, _)
LoggedReserve(u, n) ==
    IF n = 0 THEN 0
    ELSE LoggedReserve(u, n - 1)
         + (IF transactions[n].userId # u THEN 0
            ELSE IF transactions[n].type \in {"bid_placed", "bid_increased"}
            THEN transactions[n].amount
            ELSE IF transactions[n].type \in {"bid_won", "bid_refunded"}
            THEN 0 - transactions[n].amount
            ELSE 0)

HistoryEntries(b, action) ==
    {i \in DOMAIN bids[b].history : bids[b].history[i].action = action}

UserTransactions(u, type) ==
    {i \in DOMAIN transactions : /\ transactions[i].userId = u
                                 /\ transactions[i].type = type}

CommittedNext(e) ==
    IF e.type = "bid:placed"
    THEN /\ e.bid \in DOMAIN bids'
         /\ e.bid \notin DOMAIN bids
         /\ bids'[e.bid].amount = e.amount
         /\ bids'[e.bid].currentRound = e.round
    ELSE IF e.type = "bid:increased"
    THEN /\ e.bid \in DOMAIN bids
         /\ bids'[e.bid].amount = e.amount
         /\ bids[e.bid].amount < e.amount
    ELSE IF e.type = "leaderboard:updated"
    THEN \E b \in DOMAIN bids' :
            /\ bids'[b].currentRound = e.round
            /\ b \notin DOMAIN bids \/ bids'[b].amount # bids[b].amount
    ELSE IF e.type = "round:extended"
    THEN /\ rounds'[e.round].actualEndTime = e.endTime
         /\ rounds'[e.round].extensionsCount = e.count
         /\ rounds'[e.round].lastExtensionAt \in 0..now
    ELSE IF e.type = "round:started"
    THEN /\ rounds[e.round].status = "scheduled"
         /\ rounds'[e.round].status = "active"
    ELSE /\ e.type = "round:completed"
         /\ rounds[e.round].status = "active"
         /\ rounds'[e.round].status = "completed"

CancelOnlyScheduled ==
    [][\A b \in BidIds :
          CancelBid(b) /\ b \in DOMAIN bids
          => IF /\ bids[b].currentRound \in RoundIds(DB)
                /\ rounds[bids[b].currentRound].status = "scheduled"
             THEN TRUE
             ELSE /\ bids' = bids
                  /\ users' = users
                  /\ transactions' = transactions]_vars

\* C20: cancelAuction is accepted only when the auction's status is
\* scheduled or paused; from any other status the auction, its rounds, bids
\* and balances are unchanged.
CancelAuctionOnlyBeforeStart ==
    [][CancelAuction /\ auction.status \notin {"scheduled", "paused"}
       => /\ auction' = auction
          /\ rounds' = rounds
          /\ bids' = bids
          /\ users' = users]_vars

\* C21: startAuction on a scheduled auction leaves the auction active with
\* currentRound 1, round 1 active with actualStartTime and actualEndTime
\* set and every other round scheduled; on any other status nothing changes.
StartAuctionStartsRound ==
    [][StartAuction
       => IF auction.status = "scheduled"
          THEN /\ auction'.status = "active"
               /\ auction'.currentRound = 1
               /\ rounds'[1].status = "active"
               /\ rounds'[1].actualStartTime # None
               /\ rounds'[1].actualEndTime # None
               /\ \A r \in RoundIds(DB) \ {1} : rounds'[r].status = "scheduled"
          ELSE /\ auction' = auction
               /\ rounds' = rounds]_vars

AllRoundsCompleted(db) ==
    \A r \in RoundIds(db) : db.rounds[r].status = "completed"

\* C22: checkAuctionCompletion sets an active auction completed if and only
\* if every round is completed and changes nothing else; a second call
\* changes nothing; a completed auction has no round scheduled or active.
CompletionIffAllRounds ==
    LET res == checkAuctionCompletion(DB)
    IN  /\ auction.status = "active"
           => (res.db.auction.status = "completed" <=> AllRoundsCompleted(DB))
        /\ res.db = [DB EXCEPT !.auction.status = res.db.auction.status]
        /\ checkAuctionCompletion(res.db).db = res.db
        /\ auction.status = "completed" => AllRoundsCompleted(DB)

\* C23: once every round of the auction is completed no bid is active or
\* carried_over, every bid is won or refunded, and every user's reserved
\* balance is 0.
ReservationsReleased ==
    AllRoundsCompleted(DB)
    => /\ \A b \in DOMAIN bids : bids[b].status \in {"won", "refunded"}
       /\ \A u \in Users : users[u].reservedBalance = 0

\* the history of a bid begins with its creation and ends with its outcome
HistoryShape(bid) ==
    /\ Len(bid.history) >= 1
    /\ bid.history[1].action = "created"
    /\ bid.history[1].amount = bid.originalAmount
    /\ bid.history[1].round = bid.createdInRound
    /\ bid.status \in {"won", "refunded"}
       => bid.history[Len(bid.history)].action = bid.status

\* a step keeps every bid and every entry its history has
HistoryAppended ==
    \A b \in DOMAIN bids :
        /\ b \in DOMAIN bids'
        /\ Len(bids'[b].history) >= Len(bids[b].history)
        /\ SubSeq(bids'[b].history, 1, Len(bids[b].history)) = bids[b].history

\* C24: every bid's history is non-empty and begins with created, with
\* amount = originalAmount and round = createdInRound; entries are only
\* appended; a won (refunded) bid has won (refunded) as its last entry.
HistoryComplete ==
    /\ [](\A b \in DOMAIN bids : HistoryShape(bids[b]))
    /\ [][HistoryAppended]_vars

\* a bid has been raised, carried over and refunded, another has won
LongHistoryWitness ==
    /\ \E b \in DOMAIN bids : /\ bids[b].status = "refunded"
                              /\ Len(bids[b].history) >= 3
    /\ \E b \in DOMAIN bids : bids[b].status = "won"

\* a bid is accepted in round r by the step: placed, or raised
AcceptedIn(r) ==
    \E b \in DOMAIN bids' :
        /\ bids'[b].currentRound = r
        /\ bids'[b].status = "active"
        /\ \/ b \notin DOMAIN bids
           \/ bids'[b].amount > bids[b].amount

SnipeCondition(r) ==
    /\ rounds[r].status = "active"
    /\ rounds[r].actualEndTime # None
    /\ 0 < rounds[r].actualEndTime - now
    /\ rounds[r].actualEndTime - now <= auction.antiSnipeWindow
    /\ rounds[r].extensionsCount < auction.maxExtensions

\* the rule, for the bids accepted by a step and for the rounds it extends
AntiSnipeStep ==
    \A r \in RoundIds(DB) :
        /\ AcceptedIn(r)
           => IF SnipeCondition(r)
              THEN rounds'[r] =
                     [rounds[r] EXCEPT
                        !.actualEndTime = @ + auction.antiSnipeExtension,
                        !.extensionsCount = @ + 1,
                        !.lastExtensionAt = now]
              ELSE rounds'[r] = rounds[r]
        /\ rounds'[r].extensionsCount # rounds[r].extensionsCount
           => AcceptedIn(r)

\* the end times of round r, which ends at T, after checkAntiSnipe at each
\* of the times, with window 60, extension 60 and maxExtensions 3
SnipeExampleDb(r) ==
    [DB EXCEPT !.auction.antiSnipeWindow = 60,
               !.auction.antiSnipeExtension = 60,
               !.auction.maxExtensions = 3,
               !.rounds[r].extensionsCount = 0]

RECURSIVE SnipeEnds(_, _, _)
SnipeEnds(db, r, times) ==
    IF times = <<>> THEN <<>>
    ELSE LET next == checkAntiSnipe(db, r, Head(times)).db
         IN  <<next.rounds[r].actualEndTime>>
             \o SnipeEnds(next, r, Tail(times))

SnipeExample(r, offsets) ==
    LET T == rounds[r].actualEndTime
    IN  SnipeEnds(SnipeExampleDb(r), r, <<T - 30, T + 5, T + 70, T + 120>>)
        = [i \in 1..4 |-> T + offsets[i]]

\* C25 as stated: a bid accepted at t on a round ending at E extends it iff
\* the round is active, 0 < E - t <= antiSnipeWindow and extensionsCount <
\* maxExtensions; an extension adds antiSnipeExtension to actualEndTime and 1
\* to extensionsCount; with window 60, extension 60, maxExtensions 3 and end
\* T, bids at T-30, T+5, T+70, T+120 give the ends T+30, T+90, T+150, T+150.
AntiSnipeRule ==
    /\ [][AntiSnipeStep]_vars
    /\ [](\A r \in ActiveRounds(DB) : SnipeExample(r, <<30, 90, 150, 150>>))

\* C25 amended: the same rule; the bids of the example give the ends T+60,
\* T+120, T+180, T+180, each extension adding the whole antiSnipeExtension.
AntiSnipeRuleWholeExtension ==
    /\ [][AntiSnipeStep]_vars
    /\ [](\A r \in ActiveRounds(DB) : SnipeExample(r, <<60, 120, 180, 180>>))

\* a round has been extended by a bid and a later bid has not extended it
ExtendedOnceWitness ==
    \E r \in ActiveRounds(DB) :
        /\ rounds[r].extensionsCount = auction.maxExtensions
        /\ Cardinality({b \in DOMAIN bids : bids[b].currentRound = r}) >= 2

RECURSIVE SumItemsInRound(_, _)
SumItemsInRound(rs, n) ==
    IF n = 0 THEN 0 ELSE rs[n].itemsInRound + SumItemsInRound(rs, n - 1)

\* C26: the rounds created are numbered 1..ceil(totalItems/itemsPerRound),
\* all scheduled; every round but the last has itemsPerRound items, the last
\* has the rest, at least 1; the items sum to totalItems; each round is
\* scheduled to start when the one before is scheduled to end, roundDuration
\* after its own start.
RoundsPrecomputed ==
    LET n == Len(rounds)
    IN  /\ n * auction.itemsPerRound >= auction.totalItems
        /\ (n - 1) * auction.itemsPerRound < auction.totalItems
        /\ n = auction.totalRounds
        /\ \A k \in 1 .. n :
              /\ rounds[k].roundNumber = k
              /\ rounds[k].scheduledEndTime
                 = rounds[k].scheduledStartTime + auction.roundDuration
              /\ k < n => /\ rounds[k].itemsInRound = auction.itemsPerRound
                          /\ rounds[k + 1].scheduledStartTime
                             = rounds[k].scheduledEndTime
        /\ rounds[n].itemsInRound
           = auction.totalItems - (n - 1) * auction.itemsPerRound
        /\ rounds[n].itemsInRound >= 1
        /\ rounds[1].scheduledStartTime = auction.startTime
        /\ SumItemsInRound(rounds, n) = auction.totalItems
        /\ auction.status = "scheduled"
           => \A k \in 1 .. n : rounds[k].status = "scheduled"

\* an auction created and not yet started whose last round is shorter than
\* the others
ShortLastRoundWitness ==
    /\ auction.status = "scheduled"
    /\ now = 1
    /\ Len(rounds) >= 3
    /\ rounds[Len(rounds)].itemsInRound < auction.itemsPerRound

\* C27: an increaseBid whose commit meets a concurrent modification is
\* retried: it ends with its raise applied to the bid or fails with
\* Conflict, and the bid's amount and the user's reserved balance change
\* together or not at all.
IncreaseBidRetried ==
    [][CommitTx /\ pend.op = "increaseBid"
       => /\ \/ \A b \in PendBids :
                   bids'[b].amount = pend.res.db.bids[b].amount
             \/ CommitError = "Conflict"
          /\ bids' = bids <=> users' = users]_vars

\* C28: a round that is completed is not extended: its actualEndTime stays
\* the completion time and its extensionsCount is not incremented, and the
\* step publishes no round:extended event and reschedules no end-round job
\* for it.
ExtendOnlyActive ==
    [][\A r \in RoundIds(DB) :
          rounds[r].status = "completed"
          => /\ rounds'[r].actualEndTime = rounds[r].actualEndTime
             /\ rounds'[r].extensionsCount = rounds[r].extensionsCount
             /\ \A e \in Published :
                   ~(e.type = "round:extended" /\ e.round = r)
             /\ JobsOf(jobs', "end-round", r) \subseteq JobsOf(jobs, "end-round", r)
      ]_vars

\* C29: round k+1 is started only after round k has completed; at most one
\* round is active, and the active round is auction.currentRound.
RoundChaining ==
    /\ [][\A r \in RoundIds(DB) :
             /\ r > 1
             /\ rounds[r].status = "scheduled"
             /\ rounds'[r].status = "active"
             => rounds[r - 1].status = "completed"]_vars
    /\ [](/\ Cardinality(ActiveRounds(DB)) <= 1
          /\ \A r \in ActiveRounds(DB) : auction.currentRound = r)

StartOverdue(r) ==
    /\ r \in RoundIds(DB)
    /\ rounds[r].status = "scheduled"
    /\ rounds[r].scheduledStartTime <= now

EndOverdue(r) ==
    /\ r \in RoundIds(DB)
    /\ rounds[r].status = "active"
    /\ rounds[r].actualEndTime # None
    /\ rounds[r].actualEndTime <= now
    /\ ~rounds[r].winnersProcessed

\* the round numbers of the auctions created
SweptRounds ==
    UNION {1 .. calculateTotalRounds(c[1], c[2]) : c \in ItemConfigs}

RoundStarted(r) == r \in RoundIds(DB) /\ rounds[r].status # "scheduled"

RoundCompleted(r) == r \in RoundIds(DB) /\ rounds[r].status = "completed"

\* C30: with every timer callback lost and the sweepers fairly scheduled,
\* every scheduled round whose scheduledStartTime has passed is eventually
\* started, and every active round whose actualEndTime has passed and whose
\* winners are not processed is eventually completed.
SweeperRecovers ==
    \A r \in SweptRounds :
        /\ StartOverdue(r) ~> RoundStarted(r)
        /\ EndOverdue(r) ~> RoundCompleted(r)

\* the sweepers alone have run the auction to its end, with a winner
SweptToEndWitness ==
    /\ jobs = {}
    /\ AllRoundsCompleted(DB)
    /\ \E b \in DOMAIN bids : bids[b].status = "won"

\* C31: a schedule or reschedule call leaves a timer pending for its round,
\* due at once when the deadline is not after the current instant:
\* scheduleAuctionRounds for every scheduled round, the start-round worker
\* for the round it has started, and the reschedule after an extension.
TimerAlwaysPending ==
    [][/\ ScheduleAuctionRounds
          => \A r \in RoundIds(DB) :
                rounds[r].status = "scheduled"
                => JobsOf(jobs', "start-round", r) # {}
       /\ \A r \in RoundIds(DB) :
             /\ \E k \in BOOLEAN : ProcessRoundStart(r, k)
             /\ rounds[r].status = "scheduled"
             /\ rounds'[r].status = "active"
             => JobsOf(jobs', "end-round", r) # {}
       /\ SnipeSave => JobsOf(jobs', "end-round", pend.round) # {}]_vars

FundsKept(b) ==
    /\ users'[bids[b].userId].balance = users[bids[b].userId].balance
    /\ users'[bids[b].userId].reservedBalance
       = users[bids[b].userId].reservedBalance
    /\ bids'[b].amount = bids[b].amount

\* C32: the completeRound that carries a losing bid over, and the startRound
\* that follows, leave the owner's balance and reserved balance and the
\* bid's amount unchanged.
CarryOverKeepsReservation ==
    [][\A b \in DOMAIN bids :
          /\ bids[b].status = "active" /\ bids'[b].status = "carried_over"
             => FundsKept(b)
          /\ /\ bids[b].status = "carried_over"
             /\ \E r \in RoundIds(DB) : /\ rounds[r].status = "scheduled"
                                        /\ rounds'[r].status = "active"
             => FundsKept(b)]_vars

\* a loser of round 1 with its reservation held while round 2 is active
CarriedIntoNextRoundWitness ==
    \E b \in DOMAIN bids :
        /\ bids[b].status = "carried_over"
        /\ bids[b].currentRound = 2
        /\ rounds[1].status = "completed"
        /\ rounds[2].status = "active"
        /\ users[bids[b].userId].reservedBalance = bids[b].amount

RoundStatusStep(r) ==
    \/ rounds'[r].status = rounds[r].status
    \/ rounds[r].status = "scheduled" /\ rounds'[r].status = "active"
    \/ rounds[r].status = "active" /\ rounds'[r].status = "completed"

StartRoundRejected(r) ==
    LET res == startRound(DB, r, now)
    IN  res.err # "ok" /\ res.db = DB

CompleteRoundRejected(r) ==
    \A sorted \in SortedBids(DB, RoundActiveBids(DB, r)) :
        LET res == completeRound(DB, r, sorted, now)
        IN  res.err # "ok" /\ res.db = DB

\* C33: a round's status only moves scheduled -> active -> completed;
\* startRound on a round that is not scheduled and completeRound on a round
\* that is not active fail and change nothing; winnersProcessed is true
\* exactly when the status is completed.
RoundLifecycle ==
    /\ [][\A r \in RoundIds(DB) : RoundStatusStep(r)]_vars
    /\ [](\A r \in RoundIds(DB) :
            /\ rounds[r].status # "scheduled" => StartRoundRejected(r)
            /\ rounds[r].status # "active" => CompleteRoundRejected(r)
            /\ rounds[r].winnersProcessed <=> rounds[r].status = "completed")

\* round 1 is completed after an extension and round 2 is running; both
\* operations are refused on round 1
LifecycleWitness ==
    /\ rounds[1].status = "completed"
    /\ rounds[1].extensionsCount > 0
    /\ rounds[1].winnersProcessed
    /\ rounds[2].status = "active"
    /\ StartRoundRejected(1)
    /\ CompleteRoundRejected(1)

NewlyWon == {b \in DOMAIN bids' : /\ bids'[b].status = "won"
                                  /\ b \in DOMAIN bids => bids[b].status # "won"}

\* C34: the winnersCount of a published round:completed event is the number
\* of bids the completing step marked won and of WonItems it created.
WinnersCountPublished ==
    [][\A e \in Published :
          e.type = "round:completed"
          => /\ e.count = Cardinality(NewlyWon)
             /\ e.count = Cardinality(wonItems' \ wonItems)]_vars

\* C35: every active bid is in a round that is currently active.
NoOrphanedActiveBid ==
    \A b \in DOMAIN bids :
        bids[b].status = "active"
        => \E r \in RoundIds(DB) : /\ rounds[r].roundNumber = bids[b].currentRound
                                   /\ rounds[r].status = "active"

\* C36: a round is completed only when the actualEndTime it has in the store
\* has been reached; after an extension the timer of the old end time does
\* not complete the round early.
NoEarlyCompletion ==
    [][\A r \in RoundIds(DB) :
          rounds[r].status = "active" /\ rounds'[r].status = "completed"
          => rounds[r].actualEndTime <= now]_vars

\* C37: a cancelled or completed auction keeps its status; for a cancelled
\* auction no round is started, no WonItem is created and no balance changes.
TerminalAuctionStates ==
    [][/\ auction.status \in {"cancelled", "completed"}
          => auction'.status = auction.status
       /\ auction.status = "cancelled"
          => /\ \A r \in RoundIds(DB) :
                   rounds[r].status = "scheduled"
                   => rounds'[r].status = "scheduled"
             /\ wonItems' = wonItems
             /\ \A u \in Users : users'[u].balance = users[u].balance]_vars

\* deposits minus withdrawals of user u among the first n transactions
RECURSIVE CashFlow(_, _)
CashFlow(u, n) ==
    IF n = 0 THEN 0
    ELSE CashFlow(u, n - 1)
         + (IF transactions[n].userId # u THEN 0
            ELSE IF transactions[n].type = "deposit"
            THEN transactions[n].amount
            ELSE IF transactions[n].type = "withdrawal"
            THEN 0 - transactions[n].amount
            ELSE 0)

\* C38: every user's balance is the initial balance plus deposits minus
\* withdrawals minus the amounts of the user's won bids.
FundsConservation ==
    \A u \in Users :
        users[u].balance
        = InitialBalance + CashFlow(u, Len(transactions))
          - SumAmounts({b \in DOMAIN bids : /\ bids[b].userId = u
                                            /\ bids[b].status = "won"})

\* C39: every transaction record written by a step has balanceBefore equal
\* to the owner's stored balance before the step and balanceAfter equal to
\* the stored balance after it; bid_placed and bid_increased records have
\* both equal; earlier records are never changed or removed.
TransactionLogAccurate ==
    [][/\ Len(transactions') >= Len(transactions)
       /\ SubSeq(transactions', 1, Len(transactions)) = transactions
       /\ \A i \in DOMAIN transactions' \ DOMAIN transactions :
             LET t == transactions'[i]
             IN  /\ t.balanceBefore = users[t.userId].balance
                 /\ t.balanceAfter = users'[t.userId].balance
                 /\ t.type \in {"bid_placed", "bid_increased"}
                    => t.balanceBefore = t.balanceAfter]_vars

AuctionDone ==
    /\ auction.status = "completed"
    /\ \A r \in RoundIds(DB) : rounds[r].status = "completed"

====
